---- MODULE Spec2Model ----
(***************************************************************************)
(* A model of package logsort (src/logsort.go): SortByOption reads a       *)
(* newline-delimited file once to build an index of (offset, length,       *)
(* timestamp) records, sorts the index with sort.Sort and writes the lines *)
(* to the destination in index order, re-reading each line with ReadAt     *)
(* (SrcGzip = false) or using the content kept in the record (SrcGzip =    *)
(* true).                                                                  *)
(*                                                                         *)
(* A file is modelled by its logical (uncompressed) byte stream; the gzip  *)
(* container is a byte-stream filter outside the package.  One execution   *)
(* of SortByOption is split into steps at its loop iterations.             *)
(***************************************************************************)
EXTENDS Integers, Sequences, FiniteSets

\* ------------------------------------------------------------------ bounds
\* Longest source file, in bytes.
MaxLen == 3

\* ------------------------------------------------------------ byte streams
LF == "LF"
CR == "CR"
Bytes == {"a", "b", CR, LF}

\* All byte strings of at most n bytes.
ByteSeqs(n) == UNION {[1..k -> Bytes] : k \in 0..n}

\* ------------------------------------------------------------ the protocol
\* Action values, src/logsort.go:33-40.
NOP == 0
SKIP == 1
STOP == 2

\* Timestamps the caller's handler may produce.
Timestamps == {1, 2}

\* What a TimeHandler call returns: (int64, Action, error).
Outcomes ==
    {[tm |-> t, action |-> NOP, err |-> "nil"] : t \in Timestamps}
    \cup {[tm |-> 0, action |-> SKIP, err |-> "nil"]}
    \cup {[tm |-> 0, action |-> STOP, err |-> e] : e \in {"nil", "ErrGetTime"}}

\* The handlers considered are pure functions of the line that look at its
\* first byte ("other": an empty line, or one that starts with CR); they
\* return STOP, if at all, on the lines that start with "a".
Keys == {"a", "b", "other"}
Key(line) ==
    IF Len(line) > 0 /\ line[1] \in {"a", "b"} THEN line[1] ELSE "other"
Handlers ==
    {h \in [Keys -> Outcomes] :
        h["b"].action # STOP /\ h["other"].action # STOP}

\* ------------------------------------------------------------------ files
Paths == {"src", "dst"}
NoFile == [exists |-> FALSE, data |-> <<>>]
OldDst == [exists |-> TRUE, data |-> <<"b", LF>>]

VARIABLES
    fs,        \* path -> [exists, data]: the file system
    getTime,   \* the caller's TimeHandler (a function of the line's key)
    option,    \* the Option SortByOption was called with
    pc,        \* "call", "scan", "create", "write", "done"
    srcFd,     \* "none" (never opened), "open", "closed"
    dstFd,     \* "none", "open", "closed"
    pos,       \* bytes of the source the scanner has consumed
    offset,    \* the local variable offset
    lines,     \* the index: a sequence of lineUnit
    wi,        \* records of lines the second loop has consumed
    writer,    \* "none", "plain" or "gzip": what writer wraps dstFd
    ret,       \* "running", or the error SortByOption returned ("nil": none)
    fs0,       \* history: the file system when SortByOption was called
    fault,     \* history: an I/O operation failed for an outside reason
    calls,     \* history: the lines passed to option.GetTime, in order
    out,       \* history: [no, bytes] of every line written to the destination
    prev       \* the previous call's outcome, when the caller sorts twice

vars == <<fs, getTime, option, pc, srcFd, dstFd, pos, offset, lines, wi,
          writer, ret, fs0, fault, calls, out, prev>>

NoOption == [SrcFile |-> "src", DstFile |-> "dst", SrcGzip |-> FALSE,
             GetTime |-> "nil"]
NoPrev == [done |-> FALSE, SrcGzip |-> FALSE, ret |-> "running",
           dst |-> NoFile]

\* ------------------------------------------------------------ bufio.Scanner
\* Index of the first LF after position p of data, 0 when there is none.
NextLF(data, p) ==
    IF \E i \in (p + 1)..Len(data) : data[i] = LF
    THEN CHOOSE i \in (p + 1)..Len(data) :
             data[i] = LF /\ \A j \in (p + 1)..(i - 1) : data[j] # LF
    ELSE 0

\* bufio.ScanLines drops one trailing carriage return from the token.
dropCR(tok) ==
    IF Len(tok) > 0 /\ tok[Len(tok)] = CR
    THEN SubSeq(tok, 1, Len(tok) - 1)
    ELSE tok

\* scanner.Scan() at end of input: no token is left.
AtEOF(data, p) == p >= Len(data)

\* scanner.Scan(); scanner.Bytes(): the next token and the new position.
ScanLines(data, p) ==
    LET i == NextLF(data, p)
    IN  IF i # 0
        THEN [advance |-> i, token |-> dropCR(SubSeq(data, p + 1, i - 1))]
        ELSE [advance |-> Len(data),
              token |-> dropCR(SubSeq(data, p + 1, Len(data)))]

\* option.GetTime(line)
GetTime(line) == getTime[Key(line)]

\* ------------------------------------------------------------- validation
\* Variant: the SrcFile = DstFile check is missing.
ValidateSkipSame(opt) ==
    IF opt.GetTime = "nil" THEN "ErrNeedTimeHandler" ELSE "nil"

\* The two checks at the top of SortByOption.
Validate(opt) ==
    IF opt.GetTime = "nil" THEN "ErrNeedTimeHandler"
    ELSE IF opt.SrcFile = opt.DstFile THEN "ErrSameSRCAndDST"
    ELSE "nil"

\* ------------------------------------------------------------- first pass
\* Variant: STOP is not looked at, the line is indexed like a kept one.
DecideNoStop(action) ==
    IF action = SKIP THEN "continue" ELSE "append"

\* What the loop body does with the handler's Action.
Decide(action) ==
    IF action = SKIP THEN "continue"
    ELSE IF action = STOP THEN "return"
    ELSE "append"

\* offset after a SKIP line.
SkipAdvance(off, line) == off + Len(line)

\* offset after a kept line: +1 for "\n".
KeepAdvance(off, line) == off + Len(line) + 1

\* The lineUnit built for a kept line (no: history, the line's number).
NewLineUnit(off, line, tm, gz, n) ==
    [offset |-> off, length |-> Len(line), timestamp |-> tm,
     content |-> [nil |-> ~gz, bytes |-> IF gz THEN line ELSE <<>>],
     no |-> n]

\* ------------------------------------------------------------------- sort
\* Variant: the comparison is reversed.
LessDescending(a, b) == a.timestamp > b.timestamp

\* linesSort.Less
Less(a, b) == a.timestamp < b.timestamp

IsSorted(s) == \A i, j \in 1..Len(s) : i < j => ~Less(s[j], s[i])

Permutations(n) ==
    {p \in [1..n -> 1..n] : \A i, j \in 1..n : i # j => p[i] # p[j]}

\* sort.Sort(lines): some permutation in the order of Less; the sort is not
\* stable, so records that Less does not order may come out in any order.
SortOutcomes(l) ==
    {s \in {[i \in 1..Len(l) |-> l[p[i]]] : p \in Permutations(Len(l))} :
        IsSorted(s)}

\* ------------------------------------------------------------ second pass
\* Variant: the destination is opened without truncating it.
CreateNoTrunc(file) == [exists |-> TRUE, data |-> file.data]

\* os.Create: the file exists and is empty afterwards.
Create(file) == [exists |-> TRUE, data |-> <<>>]

\* Variant: the buffer has no room for the terminator.
BufLenNoLF(l) == l.length

\* make([]byte, l.length+1)
BufLen(l) == l.length + 1

\* srcFd.ReadAt(buf, off) with len(buf) = n.
ReadAt(data, off, n) ==
    IF off + n <= Len(data)
    THEN [err |-> "nil", buf |-> SubSeq(data, off + 1, off + n)]
    ELSE [err |-> "EOF", buf |-> SubSeq(data, off + 1, Len(data))]

\* The bytes the second loop obtains for record l.
LineBytes(l, data) ==
    IF ~l.content.nil
    THEN [err |-> "nil", buf |-> Append(l.content.bytes, LF)]
    ELSE ReadAt(data, l.offset, BufLen(l))

\* ------------------------------------------------------------------- Init
Init ==
    /\ \E d \in ByteSeqs(MaxLen), dst \in {NoFile, OldDst} :
           fs = [p \in Paths |->
                    IF p = "src" THEN [exists |-> TRUE, data |-> d] ELSE dst]
    /\ getTime \in Handlers
    /\ option = NoOption
    /\ pc = "call"
    /\ srcFd = "none"
    /\ dstFd = "none"
    /\ pos = 0
    /\ offset = 0
    /\ lines = <<>>
    /\ wi = 0
    /\ writer = "none"
    /\ ret = "running"
    /\ fs0 = fs
    /\ fault = FALSE
    /\ calls = <<>>
    /\ out = <<>>
    /\ prev = NoPrev

\* return: the deferred Close calls run.
Return(err) ==
    /\ ret' = err
    /\ pc' = "done"
    /\ srcFd' = IF srcFd = "open" THEN "closed" ELSE srcFd
    /\ dstFd' = IF dstFd = "open" THEN "closed" ELSE dstFd

\* The modes the caller may pick: any for a first call, the other one when
\* it sorts the same source a second time to compare the two modes.
SrcGzipChoices == IF prev.done THEN {~prev.SrcGzip} ELSE BOOLEAN
DstFileChoices == IF prev.done THEN {"dst"} ELSE Paths
HandlerChoices == IF prev.done THEN {"set"} ELSE {"set", "nil"}

\* SortByOption is called and an option check fails.
CallInvalid ==
    /\ pc = "call"
    /\ \E gz \in SrcGzipChoices, d \in DstFileChoices, h \in HandlerChoices :
          LET opt == [SrcFile |-> "src", DstFile |-> d, SrcGzip |-> gz,
                      GetTime |-> h]
          IN  /\ Validate(opt) # "nil"
              /\ option' = opt
              /\ Return(Validate(opt))
    /\ UNCHANGED <<fs, getTime, pos, offset, lines, wi, writer, fs0, fault,
                   calls, out, prev>>

\* SortByOption is called and os.Open or gzip.NewReader fails.
CallOpenFail ==
    /\ pc = "call"
    /\ \E gz \in SrcGzipChoices, d \in DstFileChoices, h \in HandlerChoices,
          e \in {"ErrOpen", "ErrNewReader"} :
          LET opt == [SrcFile |-> "src", DstFile |-> d, SrcGzip |-> gz,
                      GetTime |-> h]
          IN  /\ Validate(opt) = "nil"
              /\ e = "ErrNewReader" => gz
              /\ option' = opt
              /\ ret' = e
              /\ pc' = "done"
              /\ srcFd' = IF e = "ErrOpen" THEN "none" ELSE "closed"
    /\ fault' = TRUE
    /\ UNCHANGED <<fs, getTime, dstFd, pos, offset, lines, wi, writer, fs0,
                   calls, out, prev>>

\* SortByOption is called, the checks pass, the source is opened and the
\* scanner is set up.
Call ==
    /\ pc = "call"
    /\ \E gz \in SrcGzipChoices, d \in DstFileChoices, h \in HandlerChoices :
          LET opt == [SrcFile |-> "src", DstFile |-> d, SrcGzip |-> gz,
                      GetTime |-> h]
          IN  /\ Validate(opt) = "nil"
              /\ fs[opt.SrcFile].exists
              /\ option' = opt
    /\ srcFd' = "open"
    /\ pos' = 0
    /\ offset' = 0
    /\ lines' = <<>>
    /\ pc' = "scan"
    /\ UNCHANGED <<fs, getTime, dstFd, wi, writer, ret, fs0, fault, calls,
                   out, prev>>

Source == fs[option.SrcFile].data

\* scanner.Scan() fails: a read error, or a line longer than the buffer.
ScanFail ==
    /\ pc = "scan"
    /\ Return("ErrScanner")
    /\ fault' = TRUE
    /\ UNCHANGED <<fs, getTime, option, pos, offset, lines, wi, writer, fs0,
                   calls, out, prev>>

\* A line the handler asks to skip.
ScanSkip ==
    /\ pc = "scan"
    /\ ~AtEOF(Source, pos)
    /\ LET s == ScanLines(Source, pos)
           r == GetTime(s.token)
       IN  /\ Decide(r.action) = "continue"
           /\ pos' = s.advance
           /\ calls' = Append(calls, s.token)
           /\ offset' = SkipAdvance(offset, s.token)
    /\ UNCHANGED <<fs, getTime, option, pc, srcFd, dstFd, lines, wi, writer,
                   ret, fs0, fault, out, prev>>

\* A line at which the handler asks to stop.
ScanStop ==
    /\ pc = "scan"
    /\ ~AtEOF(Source, pos)
    /\ LET s == ScanLines(Source, pos)
           r == GetTime(s.token)
       IN  /\ Decide(r.action) = "return"
           /\ pos' = s.advance
           /\ calls' = Append(calls, s.token)
           /\ Return(r.err)
    /\ UNCHANGED <<fs, getTime, option, offset, lines, wi, writer, fs0,
                   fault, out, prev>>

\* A line that is kept: a lineUnit is appended to the index.
ScanKeep ==
    /\ pc = "scan"
    /\ ~AtEOF(Source, pos)
    /\ LET s == ScanLines(Source, pos)
           r == GetTime(s.token)
       IN  /\ Decide(r.action) = "append"
           /\ pos' = s.advance
           /\ calls' = Append(calls, s.token)
           /\ lines' = Append(lines,
                  NewLineUnit(offset, s.token, r.tm, option.SrcGzip,
                              Len(calls) + 1))
           /\ offset' = KeepAdvance(offset, s.token)
    /\ UNCHANGED <<fs, getTime, option, pc, srcFd, dstFd, wi, writer, ret,
                   fs0, fault, out, prev>>

\* End of input: the loop ends and the index is sorted.
ScanEOF ==
    /\ pc = "scan"
    /\ AtEOF(Source, pos)
    /\ lines' \in SortOutcomes(lines)
    /\ pc' = "create"
    /\ UNCHANGED <<fs, getTime, option, srcFd, dstFd, pos, offset, wi, writer,
                   ret, fs0, fault, calls, out, prev>>

\* os.Create(option.DstFile) fails.
CreateFail ==
    /\ pc = "create"
    /\ Return("ErrCreate")
    /\ fault' = TRUE
    /\ UNCHANGED <<fs, getTime, option, pos, offset, lines, wi, writer, fs0,
                   calls, out, prev>>

\* os.Create(option.DstFile) and the writer chosen by option.DstGzip.
CreateDst ==
    /\ pc = "create"
    /\ fs' = [fs EXCEPT ![option.DstFile] = Create(@)]
    /\ dstFd' = "open"
    /\ \E DstGzip \in BOOLEAN : writer' = IF DstGzip THEN "gzip" ELSE "plain"
    /\ wi' = 0
    /\ pc' = "write"
    /\ UNCHANGED <<getTime, option, srcFd, pos, offset, lines, ret, fs0,
                   fault, calls, out, prev>>

\* One iteration of the second loop: srcFd.ReadAt fails.
WriteReadFail ==
    /\ pc = "write"
    /\ wi < Len(lines)
    /\ LineBytes(lines[wi + 1], Source).err # "nil"
    /\ Return("ErrReadAt")
    /\ UNCHANGED <<fs, getTime, option, pos, offset, lines, wi, writer, fs0,
                   fault, calls, out, prev>>

\* One iteration of the second loop: writer.Write fails, the line stays
\* out of the file.
WriteFail ==
    /\ pc = "write"
    /\ wi < Len(lines)
    /\ LineBytes(lines[wi + 1], Source).err = "nil"
    /\ Return("ErrWrite")
    /\ fault' = TRUE
    /\ UNCHANGED <<fs, getTime, option, pos, offset, lines, wi, writer, fs0,
                   calls, out, prev>>

\* One iteration of the second loop: writer.Flush fails after k bytes of
\* the line reached the file.
FlushFail ==
    /\ pc = "write"
    /\ wi < Len(lines)
    /\ LET b == LineBytes(lines[wi + 1], Source)
       IN  /\ b.err = "nil"
           /\ \E k \in 0..(Len(b.buf) - 1) :
                 fs' = [fs EXCEPT ![option.DstFile].data =
                           @ \o SubSeq(b.buf, 1, k)]
    /\ Return("ErrFlush")
    /\ fault' = TRUE
    /\ UNCHANGED <<getTime, option, pos, offset, lines, wi, writer, fs0,
                   calls, out, prev>>

\* One iteration of the second loop: the line is written and flushed.
WriteLine ==
    /\ pc = "write"
    /\ wi < Len(lines)
    /\ LET b == LineBytes(lines[wi + 1], Source)
       IN  /\ b.err = "nil"
           /\ fs' = [fs EXCEPT ![option.DstFile].data = @ \o b.buf]
           /\ out' = Append(out, [no |-> lines[wi + 1].no, bytes |-> b.buf])
    /\ wi' = wi + 1
    /\ UNCHANGED <<getTime, option, pc, srcFd, dstFd, pos, offset, lines,
                   writer, ret, fs0, fault, calls, prev>>

\* The second loop ends: return nil.
WriteDone ==
    /\ pc = "write"
    /\ wi = Len(lines)
    /\ Return("nil")
    /\ UNCHANGED <<fs, getTime, option, pos, offset, lines, wi, writer, fs0,
                   fault, calls, out, prev>>

Next ==
    \/ CallInvalid
    \/ CallOpenFail
    \/ Call
    \/ ScanFail
    \/ ScanSkip
    \/ ScanStop
    \/ ScanKeep
    \/ ScanEOF
    \/ CreateFail
    \/ CreateDst
    \/ WriteReadFail
    \/ WriteFail
    \/ FlushFail
    \/ WriteLine
    \/ WriteDone

Spec == Init /\ [][Next]_vars

\* The caller sorts the same source again in the other mode (SrcGzip
\* flipped), as the tests do with base1.log and base1.log.gz: the first
\* call's outcome is kept in prev and the files are as before that call.
Rerun ==
    /\ pc = "done"
    /\ ~prev.done
    /\ ~fault
    /\ Validate(option) = "nil"
    /\ prev' = [done |-> TRUE, SrcGzip |-> option.SrcGzip, ret |-> ret,
                dst |-> fs[option.DstFile]]
    /\ fs' = fs0
    /\ option' = NoOption
    /\ pc' = "call"
    /\ srcFd' = "none"
    /\ dstFd' = "none"
    /\ pos' = 0
    /\ offset' = 0
    /\ lines' = <<>>
    /\ wi' = 0
    /\ writer' = "none"
    /\ ret' = "running"
    /\ calls' = <<>>
    /\ out' = <<>>
    /\ UNCHANGED <<getTime, fs0, fault>>

NextPair == Next \/ Rerun

SpecPair == Init /\ [][NextPair]_vars

\* ------------------------------------------------------------ vocabulary
Done == pc = "done"

\* The call passed the option checks.
Valid == pc # "call" /\ Validate(option) = "nil"

\* The source and the destination as SortByOption found them.
Src0 == fs0["src"].data
DstData == fs["dst"].data

\* The lines of a newline-delimited byte stream, terminators excluded (a
\* last line need not be terminated).
RECURSIVE Split(_)
Split(data) ==
    IF data = <<>> THEN <<>>
    ELSE LET i == NextLF(data, 0)
         IN  IF i = 0 THEN <<data>>
             ELSE <<SubSeq(data, 1, i - 1)>>
                      \o Split(SubSeq(data, i + 1, Len(data)))

RawLines == Split(Src0)
NoCR(data) == \A i \in 1..Len(data) : data[i] # CR
\* No line of data ends in a carriage return.
NoLineEndsCR(data) == \A n \in 1..Len(Split(data)) : dropCR(Split(data)[n]) = Split(data)[n]
Terminated(data) == data = <<>> \/ data[Len(data)] = LF

\* The handler's verdict on source line n.
Verdict(n) == GetTime(dropCR(RawLines[n]))
KeepNos == {n \in 1..Len(RawLines) : Verdict(n).action = NOP}
StopNos == {n \in 1..Len(RawLines) : Verdict(n).action = STOP}

\* The handler returned STOP during this call.
StopSeen == \E n \in 1..Len(calls) : GetTime(calls[n]).action = STOP

\* Number of k with s[k] = x.
Count(s, x) == Cardinality({k \in 1..Len(s) : s[k] = x})

\* Byte offset of source line n's first byte.
RECURSIVE TrueOffset(_)
TrueOffset(n) ==
    IF n <= 1 THEN 0 ELSE TrueOffset(n - 1) + Len(RawLines[n - 1]) + 1

RECURSIVE Flatten(_)
Flatten(chunks) ==
    IF chunks = <<>> THEN <<>>
    ELSE chunks[1].bytes \o Flatten(Tail(chunks))

\* The handler's verdict on the line that produced out[k].
OutTs(k) == GetTime(calls[out[k].no]).tm

\* ----------------------------------------------------------------- claims

\* C1 (as claimed): when the handler never returns STOP and no I/O fault
\* occurs, SortByOption ends with the destination holding exactly the kept
\* source lines, verbatim, each followed by one terminator: none lost,
\* duplicated or corrupted, nothing else written.
C1_Permutation ==
    (Done /\ Valid /\ ~fault /\ StopNos = {}) =>
        /\ ret = "nil"
        /\ Terminated(DstData)
        /\ Len(Split(DstData)) = Cardinality(KeepNos)
        /\ \A n \in KeepNos :
              Count(Split(DstData), RawLines[n])
                  = Cardinality({m \in KeepNos : RawLines[m] = RawLines[n]})

\* C2 (as claimed), for sources of kept, terminated lines without carriage
\* returns: after a successful sort, any two written lines a, b of
\* different content with ta <= tb have a at or before b.
C2_OrderWithTies ==
    (Done /\ ret = "nil" /\ NoCR(Src0) /\ Terminated(Src0)
          /\ KeepNos = 1..Len(RawLines)) =>
        \A i, j \in 1..Len(out) :
            (out[i].bytes # out[j].bytes /\ OutTs(i) <= OutTs(j)) => i <= j

\* C2 (amended): after a call that returned nil, a destination the call
\* created is the concatenation of the outputs written for distinct kept
\* lines, and the output written for a line of smaller timestamp comes
\* before the output written for a line of larger timestamp.
C2_Order ==
    (Done /\ ret = "nil") =>
        /\ dstFd # "none" => DstData = Flatten(out)
        /\ \A i, j \in 1..Len(out) :
              /\ OutTs(i) < OutTs(j) => i < j
              /\ i # j => out[i].no # out[j].no
        /\ \A i \in 1..Len(out) : GetTime(calls[out[i].no]).action = NOP

\* A sort put a later line of smaller timestamp in front of an earlier one.
C2_Witness ==
    /\ Done
    /\ ret = "nil"
    /\ \E i, j \in 1..Len(out) :
          i < j /\ out[i].no > out[j].no /\ OutTs(i) < OutTs(j)
    /\ DstData = Flatten(out)

\* C3 (as claimed), for sources without carriage returns: every record's
\* offset is the offset of its own line's first byte, SKIP lines included
\* in the count, and every line written is its source line and terminator.
C3_Offsets ==
    (Valid /\ NoCR(Src0)) =>
        /\ \A i \in 1..Len(lines) :
              lines[i].offset = TrueOffset(lines[i].no)
        /\ \A k \in 1..Len(out) :
              out[k].bytes = Append(RawLines[out[k].no], LF)

\* C4 (as claimed): once the handler returned STOP the call has failed with
\* a non-nil error, that line was the last one passed to the handler and no
\* record was added for it.
C4_Abort ==
    StopSeen =>
        /\ Done
        /\ ret \notin {"nil", "running"}
        /\ GetTime(calls[Len(calls)]).action = STOP
        /\ \A i \in 1..Len(lines) : lines[i].no < Len(calls)

\* C5: a call with a nil handler or with SrcFile = DstFile returns its
\* configuration error at once: no file was opened or created, no line
\* read, and the file system is as it was.
C5_ConfigError ==
    (pc # "call" /\ (option.GetTime = "nil" \/ option.SrcFile = option.DstFile))
        => /\ Done
           /\ ret = IF option.GetTime = "nil" THEN "ErrNeedTimeHandler"
                    ELSE "ErrSameSRCAndDST"
           /\ fs = fs0
           /\ srcFd = "none"
           /\ dstFd = "none"
           /\ calls = <<>>

\* A call with a handler and SrcFile = DstFile on a non-empty file returned.
C5_Witness ==
    /\ Done
    /\ option.GetTime = "set"
    /\ option.SrcFile = option.DstFile
    /\ ret = "ErrSameSRCAndDST"
    /\ fs["src"].data # <<>>

\* C6 (as claimed): sorting the same source with the same handler in the
\* two modes, without I/O fault, gives the same result and the same
\* destination.
C6_ModesAgree ==
    (Done /\ prev.done /\ ~fault) =>
        /\ ret = prev.ret
        /\ DstData = prev.dst.data

\* A file is already sorted: every line is kept and terminated, no line
\* ends in a carriage return, timestamps do not decrease.
SortedSource ==
    /\ NoLineEndsCR(Src0)
    /\ Terminated(Src0)
    /\ KeepNos = 1..Len(RawLines)
    /\ \A m, n \in 1..Len(RawLines) :
          m < n => Verdict(m).tm <= Verdict(n).tm

StrictlySortedSource ==
    /\ SortedSource
    /\ \A m, n \in 1..Len(RawLines) : m < n => Verdict(m).tm < Verdict(n).tm

C8_Empty ==
    (Done /\ Valid /\ ~fault /\ Src0 = <<>>) =>
        /\ ret = "nil"
        /\ fs["dst"].exists
        /\ DstData = <<>>

\* An empty source was sorted over a destination that held data.
C8_Witness ==
    /\ Done
    /\ Valid
    /\ Src0 = <<>>
    /\ ret = "nil"
    /\ fs0["dst"] = OldDst
    /\ DstData = <<>>

\* C9 (as claimed): in direct mode every record lies within the source,
\* offset + length + 1 <= size, so no ReadAt fails, whether or not the last
\* line is terminated.
C9_ReadsSucceed ==
    (Valid /\ ~option.SrcGzip) =>
        /\ ret # "ErrReadAt"
        /\ \A i \in 1..Len(lines) :
              lines[i].offset + lines[i].length + 1 <= Len(Src0)

\* C10: the destination is not created, truncated or written before every
\* source line has been scanned and the index sorted; a call whose first
\* pass ends with a read error or with STOP leaves the file system as it
\* was.
C10_PassOrder ==
    /\ pc \in {"call", "scan", "create"} => (fs = fs0 /\ dstFd = "none")
    /\ (fs # fs0 \/ dstFd # "none") =>
          /\ AtEOF(Src0, pos)
          /\ Len(calls) = Len(RawLines)
          /\ IsSorted(lines)
    /\ (Done /\ (ret = "ErrScanner" \/ StopSeen)) =>
          (fs = fs0 /\ dstFd = "none")

\* The handler returned STOP after a line had been added to the index, with
\* a destination file in place.
C10_Witness ==
    /\ Done
    /\ StopSeen
    /\ lines # <<>>
    /\ fs0["dst"] = OldDst
    /\ fs["dst"] = OldDst

====
